---- MODULE Spec2Model ----
(***************************************************************************)
(* Model of the patch scripts of Heronix-SchedulerV2: fix_errors.py,       *)
(* fix_all_errors.py, fix_final_errors.py, fix_remaining.py,               *)
(* fix_phase2_imports.py, fix_rooms_controller.py and fix_syntax.py.       *)
(*                                                                         *)
(* A text is a sequence of tokens; a token stands for a fragment of the    *)
(* Java source a pattern can match.  A file system maps each target file   *)
(* to whether it exists and to its text.  Every script is a sequence of    *)
(* patch steps; a step reads its target, substitutes, and may write and    *)
(* print.                                                                  *)
(***************************************************************************)
EXTENDS Integers, Sequences, FiniteSets, TLC

VARIABLES script,   \* the script being run
          pc,       \* index of the next patch step of the script
          status,   \* "running", "done" (ran to its end) or "aborted" (uncaught exception)
          fs,       \* the file system: file -> [ex, text]
          out,      \* standard output: the sequence of printed status lines
          reads,    \* file -> number of times the file was opened for reading
          writes,   \* file -> number of times the file was opened for writing
          faults,   \* number of I/O failures injected so far
          rules,    \* harness only: the rule list handed to fix_file
          hist      \* what each executed step did, in order

vars == <<script, pc, status, fs, out, reads, writes, faults, rules, hist>>

----------------------------------------------------------------------------
(* Bounds of the model *)

MaxLen == 3       \* longest initial text of a file
MaxRules == 2     \* longest rule list handed to fix_file by the harness
MaxRuns == 2      \* calls of fix_file on the same file in the harness
MaxFaults == 1    \* injected write failures per run
MaxFileLen == 2   \* longest initial text of a target file of a script run
MaxReLen == 5     \* longest initial text handed to a substitution under flags
MaxLines == 4     \* most lines of the file handed to the patch of line 636
MaxP2Len == 4     \* most lines of a file handed to the loop body of fix_phase2_imports.py

Alphabet == {"a", "b"}
Files == {"F1", "F2", "F3"}

SeqsUpTo(S, n) == UNION {[1..k -> S] : k \in 0..n}
Texts == SeqsUpTo(Alphabet, MaxLen)

(* Literal patterns are never empty; replacements may be. *)
Patterns == SeqsUpTo(Alphabet, 2) \ {<<>>}
Replacements == SeqsUpTo(Alphabet, 2)
Rules == [old : Patterns, new : Replacements]
(* One-token rules, used where several rules are chained. *)
SmallRules == [old : SeqsUpTo(Alphabet, 1) \ {<<>>}, new : SeqsUpTo(Alphabet, 1)]
RuleLists == {<<r>> : r \in Rules}
             \cup UNION {[1..k -> SmallRules] : k \in 2..MaxRules}

----------------------------------------------------------------------------
(* re.sub for a literal pattern *)

MatchAt(P, t, i) ==
  /\ i + Len(P) - 1 <= Len(t)
  /\ SubSeq(t, i, i + Len(P) - 1) = P

Occurs(P, t) == \E i \in 1..Len(t) : MatchAt(P, t, i)

RECURSIVE Scan(_, _, _, _)
Scan(P, Q, t, i) ==
  IF i > Len(t) THEN <<>>
  ELSE IF MatchAt(P, t, i) THEN Q \o Scan(P, Q, t, i + Len(P))
  ELSE <<t[i]>> \o Scan(P, Q, t, i + 1)

(* Faulty variant of re.sub: only the first match is replaced (count=1). *)
RECURSIVE ScanFirst(_, _, _, _)
ScanFirst(P, Q, t, i) ==
  IF i > Len(t) THEN <<>>
  ELSE IF MatchAt(P, t, i) THEN Q \o SubSeq(t, i + Len(P), Len(t))
  ELSE <<t[i]>> \o ScanFirst(P, Q, t, i + 1)

ReSubFirstOnly(rule, content) == ScanFirst(rule.old, rule.new, content, 1)

(* re.sub(old_pattern, new_text, content): every non-overlapping match,
   found left to right, is replaced. *)
ReSub(rule, content) == Scan(rule.old, rule.new, content, 1)

----------------------------------------------------------------------------
(* fix_file *)

RECURSIVE ForEachRule(_, _, _)
ForEachRule(fixes_list, content, i) ==
  IF i > Len(fixes_list) THEN content
  ELSE ForEachRule(fixes_list, ReSub(fixes_list[i], content), i + 1)

(* Faulty variant of the rule loop: the list is walked from its end. *)
RECURSIVE ForEachRuleReversed(_, _, _)
ForEachRuleReversed(fixes_list, content, i) ==
  IF i < 1 THEN content
  ELSE ForEachRuleReversed(fixes_list, ReSub(fixes_list[i], content), i - 1)

ApplyFixesReversed(fixes_list, content) ==
  ForEachRuleReversed(fixes_list, content, Len(fixes_list))

(* for old_pattern, new_text in fixes_list: content = re.sub(...) *)
ApplyFixes(fixes_list, content) == ForEachRule(fixes_list, content, 1)

(* Faulty variant of Changed: the comparison is dropped. *)
AlwaysWrite(content, original) == TRUE

(* if content != original *)
Changed(content, original) == content # original

----------------------------------------------------------------------------
(* Files, output lines and I/O failures *)

Line(kind, f) == [kind |-> kind, file |-> f]

NoFault == [kind |-> "ok", kept |-> 0]
(* open(path, 'w') raises (the file is left as it was), or the write raises
   after the file was truncated and `kept` tokens were stored. *)
FaultSet == {[kind |-> "open", kept |-> 0],
             [kind |-> "write", kept |-> 0],
             [kind |-> "write", kept |-> 1]}

Prefix(t, k) == SubSeq(t, 1, IF k < Len(t) THEN k ELSE Len(t))

(* with open(file_path, 'w') as f: f.write(content) *)
WriteFile(fsv, f, content, fault) ==
  CASE fault.kind = "ok" -> [fsv EXCEPT ![f] = [ex |-> TRUE, text |-> content]]
    [] fault.kind = "open" -> fsv
    [] OTHER -> [fsv EXCEPT ![f] = [ex |-> TRUE, text |-> Prefix(content, fault.kept)]]

(* What a patch step did: the file system it leaves, the lines it printed,
   how often it opened its target for reading (rd) and for writing (wr),
   whether an exception left it (raised), fix_file's return value (ret), the
   text it read, the text it computed, whether one of its patterns occurred
   in the text read, and whether its write raised an I/O error (failed). *)
Effect(fsv, lines, rd, wr, raised, ret, read, after, matched) ==
  [fs |-> fsv, lines |-> lines, rd |-> rd, wr |-> wr, raised |-> raised,
   ret |-> ret, read |-> read, after |-> after, matched |-> matched,
   failed |-> FALSE]

AnyOccurs(fixes_list, t) == \E i \in 1..Len(fixes_list) : Occurs(fixes_list[i].old, t)

(* Faulty variants of Written: the file is opened for writing twice; a failed
   write is swallowed instead of raised. *)
WrittenTwice(fsv, f, content, fault, lines, ret, read, matched) ==
  [Effect(WriteFile(fsv, f, content, fault),
          IF fault.kind = "ok" THEN lines ELSE <<>>,
          1, 2, fault.kind # "ok",
          IF fault.kind = "ok" THEN ret ELSE FALSE,
          read, content, matched)
   EXCEPT !.failed = fault.kind # "ok"]

WrittenSwallowed(fsv, f, content, fault, lines, ret, read, matched) ==
  [Effect(WriteFile(fsv, f, content, fault),
          IF fault.kind = "ok" THEN lines ELSE <<>>,
          1, 1, FALSE,
          IF fault.kind = "ok" THEN ret ELSE FALSE,
          read, content, matched)
   EXCEPT !.failed = fault.kind # "ok"]

(* The write at the end of a step: the file system after it and whether it raised. *)
Written(fsv, f, content, fault, lines, ret, read, matched) ==
  [Effect(WriteFile(fsv, f, content, fault),
          IF fault.kind = "ok" THEN lines ELSE <<>>,
          1, 1, fault.kind # "ok",
          IF fault.kind = "ok" THEN ret ELSE FALSE,
          read, content, matched)
   EXCEPT !.failed = fault.kind # "ok"]

(* def fix_file(file_path, fixes_list) *)
FixFile(fsv, f, fixes_list, fault) ==
  IF ~fsv[f].ex
  THEN Effect(fsv, <<Line("NotFound", f)>>, 0, 0, FALSE, FALSE, <<>>, <<>>, FALSE)
  ELSE LET original == fsv[f].text
           content == ApplyFixes(fixes_list, original)
           matched == AnyOccurs(fixes_list, original)
       IN IF Changed(content, original)
          THEN Written(fsv, f, content, fault, <<>>, TRUE, original, matched)
          ELSE Effect(fsv, <<>>, 1, 0, FALSE, FALSE, original, content, matched)

(* if fix_file(path, [...]): print("Fixed: ...") *)
FixFileCall(fsv, st, fault) ==
  LET e == FixFile(fsv, st.file, st.fixes, fault)
  IN [e EXCEPT !.lines = IF e.ret THEN e.lines \o <<Line("Fixed", st.file)>> ELSE e.lines]

(* fix_errors.py: the body of `for fix in fixes` *)
FixLoopBody(fsv, st, fault) ==
  LET f == st.file IN
  IF fsv[f].ex
  THEN LET original == fsv[f].text
           content == ReSub(st.fixes[1], original)
           matched == AnyOccurs(st.fixes, original)
       IN IF Changed(content, original)
          THEN Written(fsv, f, content, fault, <<Line("Fixed", f)>>, TRUE, original, matched)
          ELSE Effect(fsv, <<Line("NoMatch", f)>>, 1, 0, FALSE, FALSE, original, content, matched)
  ELSE Effect(fsv, <<Line("NotFound", f)>>, 0, 0, FALSE, FALSE, <<>>, <<>>, FALSE)

(* An inline patch behind os.path.exists and a test of the content:
   if <required> in content and <absent> not in content:
       content = re.sub(...); write; print("Fixed: ...")
   (fix_all_errors.py, SubstituteScheduleGeneratorService; fix_final_errors.py,
   LunchPeriodServiceImpl and EventsController). *)
GuardedPatch(fsv, st, fault) ==
  LET f == st.file IN
  IF fsv[f].ex
  THEN LET original == fsv[f].text
           content == ReSub(st.fixes[1], original)
           matched == AnyOccurs(st.fixes, original)
       IN IF ~Occurs(st.absent, original) /\ Occurs(st.required, original)
          THEN Written(fsv, f, content, fault, <<Line("Fixed", f)>>, FALSE, original, matched)
          ELSE Effect(fsv, <<>>, 1, 0, FALSE, FALSE, original, original, matched)
  ELSE Effect(fsv, <<>>, 0, 0, FALSE, FALSE, <<>>, <<>>, FALSE)

(* fix_final_errors.py, OptimizationServiceImpl: behind os.path.exists the
   file is read, substituted, written and reported, whatever the result. *)
UncondPatch(fsv, st, fault) ==
  LET f == st.file IN
  IF fsv[f].ex
  THEN LET original == fsv[f].text
           content == ReSub(st.fixes[1], original)
       IN Written(fsv, f, content, fault, <<Line("Fixed", f)>>, FALSE, original,
                  AnyOccurs(st.fixes, original))
  ELSE Effect(fsv, <<>>, 0, 0, FALSE, FALSE, <<>>, <<>>, FALSE)

(* open(file_path, 'r') without a test for existence: FileNotFoundError *)
OpenRaises(fsv) == Effect(fsv, <<>>, 0, 0, TRUE, FALSE, <<>>, <<>>, FALSE)

(* fix_remaining.py (ScheduleSlotEditDialogController, SmartCourseAssignmentService),
   fix_rooms_controller.py, fix_syntax.py: open, substitute, write, print. *)
OpenPatch(fsv, st, fault) ==
  LET f == st.file IN
  IF fsv[f].ex
  THEN LET original == fsv[f].text
           content == ApplyFixes(st.fixes, original)
       IN Written(fsv, f, content, fault, <<Line("Fixed", f)>>, FALSE, original,
                  AnyOccurs(st.fixes, original))
  ELSE OpenRaises(fsv)

(* fix_remaining.py, ScheduleViewController and ScheduleViewerController:
   open, substitute, and write and print only if content != original. *)
OpenChangedPatch(fsv, st, fault) ==
  LET f == st.file IN
  IF fsv[f].ex
  THEN LET original == fsv[f].text
           content == ApplyFixes(st.fixes, original)
           matched == AnyOccurs(st.fixes, original)
       IN IF Changed(content, original)
          THEN Written(fsv, f, content, fault, <<Line("Fixed", f)>>, FALSE, original, matched)
          ELSE Effect(fsv, <<>>, 1, 0, FALSE, FALSE, original, content, matched)
  ELSE OpenRaises(fsv)

(* lines[k] = lines[k].replace(old, new): a token of the text is one line here;
   the line that holds the old fragment becomes the line that holds the new one. *)
LineReplace(rule, line) == IF line = rule.old[1] THEN rule.new[1] ELSE line

(* fix_remaining.py, RoomEquipmentService and ScheduleIssueDetector:
   lines = f.readlines(); if len(lines) >= N: replace in the numbered lines,
   f.writelines(lines), print. *)
OpenLinesPatch(fsv, st, fault) ==
  LET f == st.file IN
  IF fsv[f].ex
  THEN LET lines == fsv[f].text
           patched == [k \in 1..Len(lines) |->
                         IF k \in st.lineNos THEN LineReplace(st.fixes[1], lines[k])
                         ELSE lines[k]]
           matched == \E k \in st.lineNos : k <= Len(lines) /\ lines[k] = st.fixes[1].old[1]
       IN IF Len(lines) >= st.minLines
          THEN Written(fsv, f, patched, fault, <<Line("Fixed", f)>>, FALSE, lines, matched)
          ELSE Effect(fsv, <<>>, 1, 0, FALSE, FALSE, lines, lines, matched)
  ELSE OpenRaises(fsv)

----------------------------------------------------------------------------
(* fix_phase2_imports.py.  A token is a line, or a group of lines, with its
   line end: "i" an import statement, "s" the import of SISDataService, "t" an
   @Autowired repository field (TeacherRepository, CourseRepository or
   StudentRepository), "k" the line `public class X {`, "f" the field
   `private SISDataService sisDataService;` with its @Autowired line, "n" a
   line of white space only, "x" any other line.  "S" is the import of
   SISDataService as the script inserts it, without a line end of its own:
   what follows it stands on the same line. *)

Has(tok, t) == \E i \in 1..Len(t) : t[i] = tok
InsertAfter(t, p, toks) == SubSeq(t, 1, p) \o toks \o SubSeq(t, p + 1, Len(t))
First(S) == CHOOSE p \in S : \A q \in S : p <= q

(* the number of white-space lines of t from line i on *)
RECURSIVE BlankRun(_, _)
BlankRun(t, i) == IF i <= Len(t) /\ t[i] = "n" THEN 1 + BlankRun(t, i + 1) ELSE 0

(* re.search(r'(import [^;]+;)\n(?!import)', content): the first import
   statement whose next line does not start with `import`. *)
ImportMatches(t) ==
  {p \in 1..Len(t) : t[p] = "i" /\ (p = Len(t) \/ t[p + 1] \notin {"i", "s", "S"})}

(* 'import com.heronix.scheduler.service.data.SISDataService;' in content *)
HasSisImport(t) == Has("s", t) \/ Has("S", t)

(* content[:insert_pos] + '\nimport ...SISDataService;' + content[insert_pos:]:
   an empty line, then the import, joined to the line that followed *)
AddImport(t) ==
  IF ~HasSisImport(t) /\ ImportMatches(t) # {}
  THEN InsertAfter(t, First(ImportMatches(t)), <<"n", "S">>)
  ELSE t

(* the three re.sub(r'@Autowired\s+private\s+XRepository\s+xRepository;', '', content):
   the indentation and the line end of the declaration stay *)
RemoveRepositoryFields(t) == [i \in 1..Len(t) |-> IF t[i] = "t" THEN "n" ELSE t[i]]

(* re.search(r'(public class \w+[^{]*\{)\s*\n', content): \s* runs over the
   white-space lines that follow the class line *)
ClassMatches(t) == {p \in 1..Len(t) : t[p] = "k"}

(* content[:insert_pos] + '\n    @Autowired\n    private SISDataService sisDataService;\n'
   + content[insert_pos:] *)
AddField(t) ==
  IF ~Has("f", t) /\ ClassMatches(t) # {}
  THEN LET p == First(ClassMatches(t))
       IN InsertAfter(t, p + BlankRun(t, p + 1), <<"n", "f">>)
  ELSE t

(* re.sub(r'\n\s*\n\s*\n', '\n\n', content): white space that holds three
   line ends or more becomes two line ends.  After a line with its line end
   a run of white-space lines becomes one; at the start of the text and after
   "S" a run of three or more becomes two. *)
RECURSIVE CollapseFrom(_, _)
CollapseFrom(t, i) ==
  IF i > Len(t) THEN <<>>
  ELSE IF t[i] = "n"
       THEN LET m == BlankRun(t, i)
                keep == IF i = 1 \/ t[i - 1] = "S" THEN (IF m < 3 THEN m ELSE 2) ELSE 1
            IN [j \in 1..keep |-> "n"] \o CollapseFrom(t, i + m)
       ELSE <<t[i]>> \o CollapseFrom(t, i + 1)

CollapseBlank(t) == CollapseFrom(t, 1)

Phase2Transform(content) ==
  CollapseBlank(AddField(RemoveRepositoryFields(AddImport(content))))

(* open(filepath, 'r') or f.read() raises though the file exists (no
   permission, bytes that are not UTF-8) *)
ReadFault == [kind |-> "read", kept |-> 0]

(* Faulty variant of TryPatch: FileNotFoundError is not caught. *)
TryPatchMissingUncaught(fsv, st, fault) ==
  LET f == st.file IN
  IF fsv[f].ex
  THEN IF fault.kind = "read"
       THEN [Effect(fsv, <<Line("Error", f)>>, 1, 0, FALSE, FALSE, <<>>, <<>>, FALSE)
             EXCEPT !.failed = TRUE]
       ELSE LET original == fsv[f].text
                w == Written(fsv, f, Phase2Transform(original), fault, <<>>, FALSE, original,
                             Has("i", original) \/ Has("t", original) \/ Has("k", original))
            IN [w EXCEPT !.raised = FALSE,
                         !.lines = IF w.failed THEN <<Line("Error", f)>> ELSE <<Line("OKFixed", f)>>]
  ELSE OpenRaises(fsv)

(* the body of `for filepath in files`: try: ... except Exception as e: print(ERROR) *)
TryPatch(fsv, st, fault) ==
  LET f == st.file IN
  IF fsv[f].ex
  THEN IF fault.kind = "read"
       THEN [Effect(fsv, <<Line("Error", f)>>, 1, 0, FALSE, FALSE, <<>>, <<>>, FALSE)
             EXCEPT !.failed = TRUE]
       ELSE LET original == fsv[f].text
                w == Written(fsv, f, Phase2Transform(original), fault, <<>>, FALSE, original,
                             Has("i", original) \/ Has("t", original) \/ Has("k", original))
            IN [w EXCEPT !.raised = FALSE,
                         !.lines = IF w.failed THEN <<Line("Error", f)>> ELSE <<Line("OKFixed", f)>>]
  ELSE Effect(fsv, <<Line("Error", f)>>, 0, 0, FALSE, FALSE, <<>>, <<>>, FALSE)

----------------------------------------------------------------------------
(* The scripts.  Each is the sequence of its patch steps in source order,
   shortened: of consecutive steps of the same shape on different files one
   is kept, and steps that target a file a second time are kept.  F1, F2, F3
   stand for the target files named at each step.  Tokens "a", "b", "l", "j"
   are fragments a pattern or a content test looks for; "c", "d" are
   replacement text no pattern matches; "x" is any other text. *)

Rule(old, new) == [old |-> old, new |-> new]

Step(kind, file, fixes) ==
  [kind |-> kind, file |-> file, fixes |-> fixes,
   required |-> <<>>, absent |-> <<>>, minLines |-> 0, lineNos |-> {}]

Guarded(file, required, absent, rule) ==
  [Step("guarded", file, <<rule>>) EXCEPT !.required = required, !.absent = absent]

Lines(file, minLines, lineNos, rule) ==
  [Step("lines", file, <<rule>>) EXCEPT !.minLines = minLines, !.lineNos = lineNos]

(* fix_errors.py: fixes, several entries per file.
   F1 SpecialDutyRosterController, F2 EventsController, F3 SmartCourseAssignmentService *)
FixErrors ==
  [steps |-> << Step("loop", "F1", <<Rule(<<"a">>, <<"c">>)>>),
                Step("loop", "F2", <<Rule(<<"a">>, <<"c">>)>>),
                Step("loop", "F1", <<Rule(<<"b">>, <<"d">>)>>),
                Step("loop", "F3", <<Rule(<<"a">>, <<"c">>)>>),
                Step("loop", "F3", <<Rule(<<"b">>, <<"c">>)>>) >>,
   summary |-> FALSE,
   tokens |-> [F1 |-> {"a", "b"}, F2 |-> {"a", "x"}, F3 |-> {"a", "b"}]]

(* fix_all_errors.py.  F1 RoomsController (patched at the start and again at
   the end), F2 ScheduleSlotEditDialogController (two rules that replace a
   match by itself), F3 SubstituteScheduleGeneratorService ("a" is `Optional<`,
   "b" the import of Optional, "l" the import of List). *)
FixAllErrors ==
  [steps |-> << Step("fix_file", "F1", <<Rule(<<"a">>, <<"c">>)>>),
                Step("fix_file", "F2", <<Rule(<<"a">>, <<"a">>), Rule(<<"b">>, <<"b">>)>>),
                Guarded("F3", <<"a">>, <<"b">>, Rule(<<"l">>, <<"l", "b">>)),
                Step("fix_file", "F1", <<Rule(<<"b">>, <<"d">>)>>) >>,
   summary |-> TRUE,
   tokens |-> [F1 |-> {"a", "b"}, F2 |-> {"a", "b"}, F3 |-> {"a", "b", "l"}]]

(* fix_final_errors.py.  F1 SmartCourseAssignmentService, F2
   OptimizationServiceImpl (the replacement holds the match, commented out),
   F3 EventsController ("a" is `exportService.exportEventsToICal(...)`, "j" the
   statement that follows it, "b" the TODO marker). *)
FixFinalErrors ==
  [steps |-> << Step("fix_file", "F1", <<Rule(<<"a">>, <<"c">>), Rule(<<"b">>, <<"d">>)>>),
                Step("uncond", "F2", <<Rule(<<"a">>, <<"c", "a">>)>>),
                Guarded("F3", <<"a">>, <<"b">>, Rule(<<"a", "j">>, <<"b", "a", "c">>)) >>,
   summary |-> TRUE,
   tokens |-> [F1 |-> {"a", "b"}, F2 |-> {"a", "x"}, F3 |-> {"a", "b", "j"}]]

(* fix_remaining.py.  F1 RoomEquipmentService (lines 181 and 298 of at least
   298, here lines 1 and 2 of at least 2), F2 ScheduleSlotEditDialogController,
   F3 ScheduleViewController. *)
FixRemaining ==
  [steps |-> << Lines("F1", 2, {1, 2}, Rule(<<"a">>, <<"c">>)),
                Step("open", "F2", <<Rule(<<"a">>, <<"c">>), Rule(<<"b">>, <<"c">>)>>),
                Step("open_changed", "F3", <<Rule(<<"a">>, <<"c">>), Rule(<<"b">>, <<"d">>)>>) >>,
   summary |-> TRUE,
   tokens |-> [F1 |-> {"a", "x"}, F2 |-> {"a", "b"}, F3 |-> {"a", "b"}]]

(* fix_phase2_imports.py: files, three of the seventeen; each is drawn over
   two of the three fragments the step looks for. *)
FixPhase2Imports ==
  [steps |-> << Step("try", "F1", <<>>), Step("try", "F2", <<>>), Step("try", "F3", <<>>) >>,
   summary |-> TRUE,
   tokens |-> [F1 |-> {"i", "k"}, F2 |-> {"t", "k"}, F3 |-> {"i", "t"}]]

(* fix_rooms_controller.py: F1 RoomsController *)
FixRoomsController ==
  [steps |-> << Step("open", "F1", <<Rule(<<"a">>, <<"c">>)>>) >>,
   summary |-> FALSE,
   tokens |-> [F1 |-> {"a", "x"}, F2 |-> {}, F3 |-> {}]]

(* fix_syntax.py: F1 SmartCourseAssignmentService, F2 RoomsController *)
FixSyntax ==
  [steps |-> << Step("open", "F1", <<Rule(<<"a">>, <<"c">>), Rule(<<"b">>, <<"d">>)>>),
                Step("open", "F2", <<Rule(<<"a">>, <<"c">>)>>) >>,
   summary |-> FALSE,
   tokens |-> [F1 |-> {"a", "b"}, F2 |-> {"a", "x"}, F3 |-> {}]]

ScriptNames == {"fix_errors", "fix_all_errors", "fix_final_errors", "fix_remaining",
                "fix_phase2_imports", "fix_rooms_controller", "fix_syntax"}

Script(name) ==
  CASE name = "fix_errors" -> FixErrors
    [] name = "fix_all_errors" -> FixAllErrors
    [] name = "fix_final_errors" -> FixFinalErrors
    [] name = "fix_remaining" -> FixRemaining
    [] name = "fix_phase2_imports" -> FixPhase2Imports
    [] name = "fix_rooms_controller" -> FixRoomsController
    [] OTHER -> FixSyntax

Steps == Script(script).steps

----------------------------------------------------------------------------
(* A run of one script *)

MissingFile == [ex |-> FALSE, text |-> <<>>]
FileStates(tokens, n) ==
  {MissingFile} \cup {[ex |-> TRUE, text |-> t] : t \in SeqsUpTo(tokens, n)}

(* The record of a step: its index, kind and target, whether the target
   existed, and the step's effect but for the file system. *)
StepRecord(st, e) ==
  [step |-> pc, kind |-> st.kind, file |-> st.file, existed |-> fs[st.file].ex,
   lines |-> e.lines, rd |-> e.rd, wr |-> e.wr, raised |-> e.raised, ret |-> e.ret,
   read |-> e.read, after |-> e.after, matched |-> e.matched, failed |-> e.failed]

(* A target file is missing or holds a text over the tokens its steps look
   for; a file the script does not target is left out (missing). *)
InitialStates(name, f) ==
  IF Script(name).tokens[f] = {} THEN {MissingFile}
  ELSE FileStates(Script(name).tokens[f], MaxFileLen)

Init ==
  /\ script \in ScriptNames
  /\ pc = 1
  /\ status = "running"
  /\ \E s1 \in InitialStates(script, "F1"), s2 \in InitialStates(script, "F2"),
        s3 \in InitialStates(script, "F3") :
       fs = [f \in Files |-> IF f = "F1" THEN s1 ELSE IF f = "F2" THEN s2 ELSE s3]
  /\ out = <<>>
  /\ reads = [f \in Files |-> 0]
  /\ writes = [f \in Files |-> 0]
  /\ faults = 0
  /\ rules = <<>>
  /\ hist = <<>>

(* The write of a step succeeds, or fails while a failure may still be injected. *)
FaultChoices == {NoFault} \cup (IF faults < MaxFaults THEN FaultSet ELSE {})

(* The state after a step with effect e: an uncaught exception ends the run. *)
Apply(st, e) ==
  /\ fs' = e.fs
  /\ out' = out \o e.lines
  /\ reads' = [reads EXCEPT ![st.file] = @ + e.rd]
  /\ writes' = [writes EXCEPT ![st.file] = @ + e.wr]
  /\ faults' = faults + (IF e.failed THEN 1 ELSE 0)
  /\ hist' = Append(hist, StepRecord(st, e))
  /\ pc' = pc + 1
  /\ status' = IF e.raised THEN "aborted" ELSE "running"
  /\ UNCHANGED <<script, rules>>

AtStep(kind) ==
  /\ script \in ScriptNames
  /\ status = "running"
  /\ pc <= Len(Steps)
  /\ Steps[pc].kind = kind

FixFileStep == AtStep("fix_file") /\ \E fault \in FaultChoices : Apply(Steps[pc], FixFileCall(fs, Steps[pc], fault))
FixLoopStep == AtStep("loop") /\ \E fault \in FaultChoices : Apply(Steps[pc], FixLoopBody(fs, Steps[pc], fault))
GuardedStep == AtStep("guarded") /\ \E fault \in FaultChoices : Apply(Steps[pc], GuardedPatch(fs, Steps[pc], fault))
UncondStep == AtStep("uncond") /\ \E fault \in FaultChoices : Apply(Steps[pc], UncondPatch(fs, Steps[pc], fault))
OpenStep == AtStep("open") /\ \E fault \in FaultChoices : Apply(Steps[pc], OpenPatch(fs, Steps[pc], fault))
OpenChangedStep == AtStep("open_changed") /\ \E fault \in FaultChoices : Apply(Steps[pc], OpenChangedPatch(fs, Steps[pc], fault))
LinesStep == AtStep("lines") /\ \E fault \in FaultChoices : Apply(Steps[pc], OpenLinesPatch(fs, Steps[pc], fault))
TryStep ==
  /\ AtStep("try")
  /\ \E fault \in FaultChoices \cup (IF faults < MaxFaults THEN {ReadFault} ELSE {}) :
       Apply(Steps[pc], TryPatch(fs, Steps[pc], fault))

(* The end of the script: its closing print, where it has one. *)
Finish ==
  /\ script \in ScriptNames
  /\ status = "running"
  /\ pc = Len(Steps) + 1
  /\ out' = IF Script(script).summary THEN out \o <<Line("Summary", "none")>> ELSE out
  /\ status' = "done"
  /\ UNCHANGED <<script, pc, fs, reads, writes, faults, rules, hist>>

Next ==
  \/ FixFileStep
  \/ FixLoopStep
  \/ GuardedStep
  \/ UncondStep
  \/ OpenStep
  \/ OpenChangedStep
  \/ LinesStep
  \/ TryStep
  \/ Finish

Spec == Init /\ [][Next]_vars

----------------------------------------------------------------------------
(* fix_file, and the loop body of fix_errors.py, called on one file with a
   rule list drawn from RuleLists, up to MaxRuns times in a row. *)

Harness == {"call_fix_file", "call_fix_loop"}

InitFix ==
  /\ script \in Harness
  /\ pc = 1
  /\ status = "running"
  /\ rules \in RuleLists
  /\ script = "call_fix_loop" => Len(rules) = 1
  /\ \E st \in FileStates(Alphabet, MaxLen) :
       fs = [f \in Files |-> IF f = "F1" THEN st ELSE MissingFile]
  /\ out = <<>>
  /\ reads = [f \in Files |-> 0]
  /\ writes = [f \in Files |-> 0]
  /\ faults = 0
  /\ hist = <<>>

CallFixFile ==
  /\ script = "call_fix_file"
  /\ pc <= MaxRuns
  /\ LET st == Step("fix_file", "F1", rules)
     IN Apply(st, FixFileCall(fs, st, NoFault))

CallFixLoop ==
  /\ script = "call_fix_loop"
  /\ pc <= MaxRuns
  /\ LET st == Step("loop", "F1", rules)
     IN Apply(st, FixLoopBody(fs, st, NoFault))

NextFix == CallFixFile \/ CallFixLoop

SpecFix == InitFix /\ [][NextFix]_vars

----------------------------------------------------------------------------
(* re.sub for a pattern with character classes, under a set of flags.  A
   text is a sequence of characters here: "A" and "B" stand for the two Java
   statements a pattern names, "sp" is a blank, "nl" a line end.  A pattern
   is a sequence of elements: a character matches itself, "\\s+" is one or
   more white-space characters (greedy), "." is any character. *)

Chars == {"A", "B", "sp", "nl"}
NoFlags == {}
MultilineDotall == {"MULTILINE", "DOTALL"}

(* Faulty variant of IsSpace: a line end is not white space. *)
BlankOnly(c) == c = "sp"

(* \s: [ \t\n\r\f\v], whatever the flags *)
IsSpace(c) == c \in {"sp", "nl"}

(* `.`: any character but a line end, and any character under DOTALL *)
DotMatches(c, flags) == "DOTALL" \in flags \/ c # "nl"

(* the length of the run of white space of t that starts at i *)
RECURSIVE SpaceRun(_, _)
SpaceRun(t, i) == IF i <= Len(t) /\ IsSpace(t[i]) THEN 1 + SpaceRun(t, i + 1) ELSE 0

(* The position after the match of pat[k..] that starts at t[i], the one the
   backtracking matcher finds first, or 0 when there is none. *)
RECURSIVE MatchEnd(_, _, _, _, _), Backtrack(_, _, _, _, _, _)
MatchEnd(pat, k, t, i, flags) ==
  IF k > Len(pat) THEN i
  ELSE IF pat[k] = "\\s+" THEN Backtrack(pat, k, t, i, SpaceRun(t, i), flags)
  ELSE IF i > Len(t) THEN 0
  ELSE IF pat[k] = "." THEN (IF DotMatches(t[i], flags) THEN MatchEnd(pat, k + 1, t, i + 1, flags) ELSE 0)
  ELSE IF pat[k] = t[i] THEN MatchEnd(pat, k + 1, t, i + 1, flags)
  ELSE 0

(* \s+ takes n characters, then n - 1, ... down to one, until the rest matches *)
Backtrack(pat, k, t, i, n, flags) ==
  IF n < 1 THEN 0
  ELSE LET e == MatchEnd(pat, k + 1, t, i + n, flags)
       IN IF e # 0 THEN e ELSE Backtrack(pat, k, t, i, n - 1, flags)

RECURSIVE ScanFlags(_, _, _, _, _)
ScanFlags(pat, new, t, i, flags) ==
  IF i > Len(t) THEN <<>>
  ELSE LET e == MatchEnd(pat, 1, t, i, flags)
       IN IF e # 0 THEN new \o ScanFlags(pat, new, t, e, flags)
          ELSE <<t[i]>> \o ScanFlags(pat, new, t, i + 1, flags)

(* re.sub(old_pattern, new_text, content, flags=flags) *)
ReSubFlags(rule, content, flags) == ScanFlags(rule.old, rule.new, content, 1, flags)

(* re.search(pattern, content, flags) finds a match *)
Searches(pat, t, flags) == \E i \in 1..Len(t) : MatchEnd(pat, 1, t, i, flags) # 0

(* Faulty variant of the rule loop of fix_file: the list is walked from its end. *)
RECURSIVE ForEachRuleFlagsReversed(_, _, _, _)
ForEachRuleFlagsReversed(fixes_list, content, i, flags) ==
  IF i > Len(fixes_list) THEN content
  ELSE ReSubFlags(fixes_list[i], ForEachRuleFlagsReversed(fixes_list, content, i + 1, flags), flags)

(* for old_pattern, new_text in fixes_list:
       content = re.sub(old_pattern, new_text, content, flags=...) *)
RECURSIVE ForEachRuleFlags(_, _, _, _)
ForEachRuleFlags(fixes_list, content, i, flags) ==
  IF i > Len(fixes_list) THEN content
  ELSE ForEachRuleFlags(fixes_list, ReSubFlags(fixes_list[i], content, flags), i + 1, flags)

AnySearches(fixes_list, t, flags) ==
  \E i \in 1..Len(fixes_list) : Searches(fixes_list[i].old, t, flags)

(* def fix_file(file_path, fixes_list), its patterns read as regular
   expressions: every substitution runs under re.MULTILINE | re.DOTALL *)
FixFileFlags(fsv, f, fixes_list, fault) ==
  IF ~fsv[f].ex
  THEN Effect(fsv, <<Line("NotFound", f)>>, 0, 0, FALSE, FALSE, <<>>, <<>>, FALSE)
  ELSE LET original == fsv[f].text
           content == ForEachRuleFlags(fixes_list, original, 1, MultilineDotall)
           matched == AnySearches(fixes_list, original, MultilineDotall)
       IN IF Changed(content, original)
          THEN Written(fsv, f, content, fault, <<>>, TRUE, original, matched)
          ELSE Effect(fsv, <<>>, 1, 0, FALSE, FALSE, original, content, matched)

(* if fix_file(path, [...]): print("Fixed: ...") *)
FixFileFlagsCall(fsv, st, fault) ==
  LET e == FixFileFlags(fsv, st.file, st.fixes, fault)
  IN [e EXCEPT !.lines = IF e.ret THEN e.lines \o <<Line("Fixed", st.file)>> ELSE e.lines]

(* fix_errors.py: the body of `for fix in fixes`, fix["old"] read as a
   regular expression: re.sub(fix["old"], fix["new"], content), no flags *)
FixLoopBodyPlain(fsv, st, fault) ==
  LET f == st.file IN
  IF fsv[f].ex
  THEN LET original == fsv[f].text
           content == ReSubFlags(st.fixes[1], original, NoFlags)
           matched == AnySearches(st.fixes, original, NoFlags)
       IN IF Changed(content, original)
          THEN Written(fsv, f, content, fault, <<Line("Fixed", f)>>, TRUE, original, matched)
          ELSE Effect(fsv, <<Line("NoMatch", f)>>, 1, 0, FALSE, FALSE, original, content, matched)
  ELSE Effect(fsv, <<Line("NotFound", f)>>, 0, 0, FALSE, FALSE, <<>>, <<>>, FALSE)

(* fix_final_errors.py, the exportEventsToICal patch.  "A" is the statement
   `byte[] data = exportService.exportEventsToICal(...);`, "B" the statement
   `java.nio.file.Files.write(file.toPath(), data);`, "T" a line that holds
   `// TODO: Method exportEventsToICal`, "cA" the two statements commented
   out and followed by the showError call. *)
ICalRule == [old |-> <<"A", "\\s+", "B">>, new |-> <<"T", "cA">>]

(* 'exportService.exportEventsToICal' in content *)
HasICalCall(t) == Has("A", t) \/ Has("cA", t)

(* Faulty variant of LacksICalMarker: the marker is not looked for. *)
MarkerIgnored(t) == TRUE

(* '// TODO: Method exportEventsToICal' not in content *)
LacksICalMarker(t) == ~Has("T", t)

EventsPatch(fsv, st, fault) ==
  LET f == st.file IN
  IF fsv[f].ex
  THEN LET original == fsv[f].text
           content == ReSubFlags(st.fixes[1], original, NoFlags)
           matched == AnySearches(st.fixes, original, NoFlags)
       IN IF HasICalCall(original) /\ LacksICalMarker(original)
          THEN Written(fsv, f, content, fault, <<Line("Fixed", f)>>, FALSE, original, matched)
          ELSE Effect(fsv, <<>>, 1, 0, FALSE, FALSE, original, original, matched)
  ELSE Effect(fsv, <<>>, 0, 0, FALSE, FALSE, <<>>, <<>>, FALSE)

----------------------------------------------------------------------------
(* The substitutions under their flags, called on one file: fix_file once
   with a rule list, the fix loop once for every rule of the list, and the
   exportEventsToICal patch up to MaxRuns times in a row. *)

(* The patterns: statement A, something that meets the line end, statement B *)
RePatterns == {<<"A", m, "B">> : m \in {"\\s+", ".", "nl"}}
ReRules == [old : RePatterns, new : {<<"T">>, <<"A">>}]
(* The rules that are chained: the first rewrites to a statement a later
   pattern matches. *)
ChainRules == {[old |-> <<"A", "\\s+", "B">>, new |-> <<"A">>],
               [old |-> <<"A", "nl", "B">>, new |-> <<"T">>],
               [old |-> <<"A", ".", "B">>, new |-> <<"T">>]}
ReRuleLists == {<<r>> : r \in ReRules}
               \cup UNION {[1..k -> ChainRules] : k \in 2..MaxRules}

HarnessRe == {"re_fix_file", "re_fix_loop", "re_events"}

InitRe ==
  /\ script \in HarnessRe
  /\ pc = 1
  /\ status = "running"
  /\ IF script = "re_events" THEN rules = <<ICalRule>> ELSE rules \in ReRuleLists
  /\ \E st \in FileStates(IF script = "re_events" THEN Chars \cup {"T"} ELSE Chars, MaxReLen) :
       fs = [f \in Files |-> IF f = "F1" THEN st ELSE MissingFile]
  /\ out = <<>>
  /\ reads = [f \in Files |-> 0]
  /\ writes = [f \in Files |-> 0]
  /\ faults = 0
  /\ hist = <<>>

CallFixFileFlags ==
  /\ script = "re_fix_file"
  /\ pc <= 1
  /\ LET st == Step("fix_file", "F1", rules)
     IN Apply(st, FixFileFlagsCall(fs, st, NoFault))

CallFixLoopPlain ==
  /\ script = "re_fix_loop"
  /\ pc <= Len(rules)
  /\ LET st == Step("loop", "F1", <<rules[pc]>>)
     IN Apply(st, FixLoopBodyPlain(fs, st, NoFault))

CallEventsPatch ==
  /\ script = "re_events"
  /\ pc <= MaxRuns
  /\ LET st == Step("guarded", "F1", rules)
     IN Apply(st, EventsPatch(fs, st, NoFault))

NextRe == CallFixFileFlags \/ CallFixLoopPlain \/ CallEventsPatch

SpecRe == InitRe /\ [][NextRe]_vars

----------------------------------------------------------------------------
(* The loop body of fix_phase2_imports.py called on one file that holds any
   text of up to MaxP2Len lines. *)

P2Lines == {"i", "s", "t", "k", "f", "n", "x"}

InitPhase2 ==
  /\ script = "call_try"
  /\ pc = 1
  /\ status = "running"
  /\ rules = <<>>
  /\ \E st \in FileStates(P2Lines, MaxP2Len) :
       fs = [f \in Files |-> IF f = "F1" THEN st ELSE MissingFile]
  /\ out = <<>>
  /\ reads = [f \in Files |-> 0]
  /\ writes = [f \in Files |-> 0]
  /\ faults = 0
  /\ hist = <<>>

CallTryPatch ==
  /\ script = "call_try"
  /\ pc <= 1
  /\ \E fault \in FaultChoices \cup {ReadFault} :
       LET st == Step("try", "F1", <<>>)
       IN Apply(st, TryPatch(fs, st, fault))

NextPhase2 == CallTryPatch

SpecPhase2 == InitPhase2 /\ [][NextPhase2]_vars

----------------------------------------------------------------------------
(* fix_remaining.py, the patch of line 636 of EventsController.java, called
   on one file up to MaxRuns times.  A token is a line: "e" a line that holds
   `exportEventsToICal` and no `// TODO`, "T" the line
   `// TODO: Method exportEventsToICal does not exist`, "ce" the line "e"
   commented out, "cT" the line "T" commented out, "x" any other line. *)

(* 'exportEventsToICal' in line *)
NamesICal(line) == line \in {"e", "T", "ce", "cT"}

(* '// TODO' in line *)
HasTodo(line) == line \in {"T", "cT"}

(* '                // ' + line.strip() + '\n' *)
CommentedOut(line) ==
  CASE line = "e" -> "ce"
    [] line = "T" -> "cT"
    [] OTHER -> "cx"

(* lines[635] = <the TODO line>; lines.insert(636, '// ' + lines[635].strip()):
   the second statement reads lines[635] after the first has assigned it *)
CommentOutLine(lines, n) ==
  LET assigned == [lines EXCEPT ![n] = "T"]
  IN SubSeq(assigned, 1, n) \o <<CommentedOut(assigned[n])>> \o SubSeq(assigned, n + 1, Len(assigned))

(* The patched line: line 636 of at least 636, here line 2 of at least 2. *)
EventsLine == [Step("events_line", "F1", <<>>) EXCEPT !.minLines = 2, !.lineNos = {2}]

EventsLinePatch(fsv, st, fault) ==
  LET f == st.file IN
  IF fsv[f].ex
  THEN LET lines == fsv[f].text
           n == st.minLines
       IN IF Len(lines) >= n /\ NamesICal(lines[n]) /\ ~HasTodo(lines[n])
          THEN Written(fsv, f, CommentOutLine(lines, n), fault, <<Line("Fixed", f)>>,
                       FALSE, lines, TRUE)
          ELSE Effect(fsv, <<>>, 1, 0, FALSE, FALSE, lines, lines, FALSE)
  ELSE OpenRaises(fsv)

InitLine ==
  /\ script = "call_events_line"
  /\ pc = 1
  /\ status = "running"
  /\ rules = <<>>
  /\ \E st \in FileStates({"e", "T", "x"}, MaxLines) :
       fs = [f \in Files |-> IF f = "F1" THEN st ELSE MissingFile]
  /\ out = <<>>
  /\ reads = [f \in Files |-> 0]
  /\ writes = [f \in Files |-> 0]
  /\ faults = 0
  /\ hist = <<>>

CallEventsLinePatch ==
  /\ script = "call_events_line"
  /\ status = "running"
  /\ pc <= MaxRuns
  /\ \E fault \in FaultChoices : Apply(EventsLine, EventsLinePatch(fs, EventsLine, fault))

NextLine == CallEventsLinePatch

SpecLine == InitLine /\ [][NextLine]_vars

----------------------------------------------------------------------------
(* Properties of fix_file and of the fix loop, stated for SpecFix *)

Target == "F1"

(* The left-to-right fold of the substitutions of rs over t, by recursion on
   the last rule. *)
RECURSIVE FoldRules(_, _)
FoldRules(rs, t) ==
  IF rs = <<>> THEN t
  ELSE ReSub(rs[Len(rs)], FoldRules(SubSeq(rs, 1, Len(rs) - 1), t))

(* C1: for fix_file and for an iteration of the fix loop on an existing file,
   the file is written if and only if the text obtained by applying all the
   rules differs from the text read (and then holds that text, else keeps the
   text read); fix_file returns True exactly when it wrote the file. *)
C1_WriteIffChanged ==
  \A k \in 1..Len(hist) :
    LET h == hist[k]
        result == FoldRules(rules, h.read)
    IN (script \in Harness /\ h.existed) =>
         /\ h.rd = 1
         /\ (h.wr = 1) <=> (result # h.read)
         /\ h.wr \in {0, 1}
         /\ h.ret <=> (h.wr = 1)
         /\ k = Len(hist) => fs[Target].text = result

(* C1 witness: the first call wrote the file and returned True, the second
   found nothing to change, wrote nothing and returned False. *)
C1_Witness ==
  /\ script = "call_fix_file"
  /\ Len(hist) = 2
  /\ hist[1].existed /\ hist[1].wr = 1 /\ hist[1].ret
  /\ hist[2].wr = 0 /\ ~hist[2].ret
  /\ writes[Target] = 1

(* C3: fix_file applies its rules in the declared order, each to the text the
   previous rule produced: the text it computes is the left-to-right fold of
   the substitutions over the text read. *)
C3_RulesFoldInOrder ==
  \A k \in 1..Len(hist) :
    LET h == hist[k] IN
    (script = "call_fix_file" /\ h.existed) =>
      /\ h.after = FoldRules(rules, h.read)
      /\ (k = Len(hist) /\ h.wr = 1) => fs[Target].text = FoldRules(rules, h.read)

(* C3 witness: the second rule matched text that only the first rule
   introduced, and the reverse order would have given another text. *)
C3_Witness ==
  /\ script = "call_fix_file"
  /\ Len(hist) = 1 /\ hist[1].existed /\ Len(rules) = 2
  /\ ~Occurs(rules[2].old, hist[1].read)
  /\ Occurs(rules[2].old, ReSub(rules[1], hist[1].read))
  /\ hist[1].after # ReSub(rules[1], ReSub(rules[2], hist[1].read))
  /\ fs[Target].text = hist[1].after

(* The matches re.sub replaces, stated without the scan: the set of
   occurrences of P in t that do not overlap one another and that leave out
   only occurrences overlapped by an earlier member. *)
Occurrences(P, t) == {i \in 1..Len(t) : MatchAt(P, t, i)}

Replaced(P, t) ==
  CHOOSE S \in SUBSET Occurrences(P, t) :
    /\ \A i, j \in S : i < j => i + Len(P) <= j
    /\ \A o \in Occurrences(P, t) \ S : \E m \in S : m < o /\ o < m + Len(P)

(* The text with Q in place of every match of S and the rest kept. *)
RECURSIVE Rebuild(_, _, _, _, _)
Rebuild(P, Q, t, S, i) ==
  IF i = 0 THEN <<>>
  ELSE Rebuild(P, Q, t, S, i - 1)
         \o (IF i \in S THEN Q
             ELSE IF \E m \in S : m < i /\ i < m + Len(P) THEN <<>>
             ELSE <<t[i]>>)

(* C9: one application of a rule with literal pattern P and replacement Q
   replaces every left-to-right non-overlapping occurrence of P in the text by
   Q, not only the first, and keeps the text between the occurrences. *)
C9_EveryOccurrenceReplaced ==
  \A k \in 1..Len(hist) :
    LET h == hist[k]
        P == rules[1].old
        Q == rules[1].new
    IN (script \in Harness /\ h.existed /\ Len(rules) = 1) =>
         /\ h.after = Rebuild(P, Q, h.read, Replaced(P, h.read), Len(h.read))
         /\ Len(h.after) = Len(h.read)
              + Cardinality(Replaced(P, h.read)) * (Len(Q) - Len(P))

(* C9 witness: the pattern occurred at least twice without overlap, every
   occurrence was replaced (replacing the first alone gives another text),
   and the file was written. *)
C9_Witness ==
  /\ script \in Harness /\ Len(rules) = 1 /\ Len(hist) >= 1 /\ hist[1].existed
  /\ Cardinality(Replaced(rules[1].old, hist[1].read)) >= 2
  /\ hist[1].wr = 1
  /\ hist[1].after # ReSubFirstOnly(rules[1], hist[1].read)

(* C8 as stated: when R's pattern matched at the first call and R's
   replacement text holds no match of R's pattern, the second call of
   fix_file with R writes nothing and returns False. *)
C8_SecondCallNoChange ==
  (/\ script = "call_fix_file" /\ Len(rules) = 1 /\ Len(hist) = 2
   /\ hist[1].existed /\ hist[1].matched
   /\ ~Occurs(rules[1].old, rules[1].new))
  => (hist[2].wr = 0 /\ ~hist[2].ret /\ hist[2].after = hist[2].read)

(* C8 amended: when R's pattern matched at the first call and the text the
   first call left holds no match of R's pattern, the second call of fix_file
   with R writes nothing, returns False and leaves the text as it is. *)
C8_SecondCallNoChangeIfNoMatchLeft ==
  (/\ script = "call_fix_file" /\ Len(rules) = 1 /\ Len(hist) = 2
   /\ hist[1].existed /\ hist[1].matched
   /\ ~Occurs(rules[1].old, hist[1].after))
  => (/\ hist[2].wr = 0 /\ ~hist[2].ret
      /\ hist[2].after = hist[2].read
      /\ fs[Target].text = hist[1].after
      /\ writes[Target] <= 1)

(* C8 witness: the first call replaced a match, nothing matches in its
   result, and the second call left the file alone. *)
C8_Witness ==
  /\ script = "call_fix_file" /\ Len(rules) = 1 /\ Len(hist) = 2
  /\ hist[1].existed /\ hist[1].matched /\ hist[1].wr = 1
  /\ ~Occurs(rules[1].old, hist[1].after)
  /\ hist[2].wr = 0 /\ writes[Target] = 1

----------------------------------------------------------------------------
(* Properties of the runs of the scripts, stated for Spec *)

Printed(h, kinds) == \E i \in 1..Len(h.lines) : h.lines[i].kind \in kinds
SummaryPrinted == \E i \in 1..Len(out) : out[i].kind = "Summary"
TargetedBy(f) == Cardinality({k \in 1..Len(hist) : hist[k].file = f})

(* C2: a missing target file never prevents a later file of the same run from
   being processed: the step that finds its target missing raises nothing and
   the run is not aborted. *)
C2_MissingFileNeverFatal ==
  \A k \in 1..Len(hist) :
    (script \in ScriptNames /\ ~hist[k].existed) =>
      (~hist[k].raised /\ status # "aborted")

(* C4: in every patch step, when none of the step's patterns occurs in the
   target file, the file is not written and keeps its content. *)
C4_NoMatchNoWrite ==
  \A k \in 1..Len(hist) :
    (script \in ScriptNames /\ hist[k].existed /\ ~hist[k].matched) =>
      (hist[k].wr = 0 /\ hist[k].after = hist[k].read)

(* C5: a "Fixed" line is printed for a step only if the step changed the
   content of its file. *)
C5_FixedOnlyIfChanged ==
  \A k \in 1..Len(hist) :
    (script \in ScriptNames /\ Printed(hist[k], {"Fixed"})) =>
      hist[k].after # hist[k].read

(* C6: every patch step whose I/O succeeds prints exactly one status line
   (the report of fix_phase2_imports.py counted as one). *)
C6_OneStatusLinePerStep ==
  \A k \in 1..Len(hist) :
    (script \in ScriptNames /\ ~hist[k].failed) =>
      /\ Len(hist[k].lines) = 1
      /\ hist[k].lines[1].kind \in {"Fixed", "NoMatch", "NotFound", "OKFixed", "Error"}

(* C7 as stated: within one run no file is read a second time or written a
   second time. *)
C7_ReadOnceWrittenOnce ==
  script \in ScriptNames => \A f \in Files : reads[f] <= 1 /\ writes[f] <= 1

(* C7 amended: every patch step reads its target at most once and writes it
   at most once, after reading it; within a run a file is read at most once
   per step that targets it and written at most once per read. *)
C7_OncePerStep ==
  script \in ScriptNames =>
    /\ \A k \in 1..Len(hist) :
         hist[k].rd <= 1 /\ hist[k].wr <= hist[k].rd
    /\ \A f \in Files :
         reads[f] <= TargetedBy(f) /\ writes[f] <= reads[f]

(* C7 witness: fix_errors.py has read and written SpecialDutyRosterController
   twice, once for each of two entries of fixes. *)
C7_Witness ==
  /\ script = "fix_errors" /\ status = "done"
  /\ reads["F1"] = 2 /\ writes["F1"] = 2
  /\ faults = 0

(* C10 as stated: after a failed write the run is aborted: no later step is
   executed and the closing line is not printed. *)
C10_WriteFailureAborts ==
  \A k \in 1..Len(hist) :
    (script \in ScriptNames /\ hist[k].failed) =>
      (status = "aborted" /\ k = Len(hist) /\ ~SummaryPrinted)

(* C10 amended: in every script but fix_phase2_imports.py a failed write
   aborts the run: no later step is executed and the closing line is not
   printed; in fix_phase2_imports.py the failure is caught, reported by an
   ERROR line for that file, and the run is not aborted. *)
C10_WriteFailureAbortsUnlessCaught ==
  \A k \in 1..Len(hist) :
    (script \in ScriptNames /\ hist[k].failed) =>
      IF script = "fix_phase2_imports"
      THEN /\ ~hist[k].raised /\ status # "aborted"
           /\ hist[k].lines = <<Line("Error", hist[k].file)>>
           /\ status = "done" => (Len(hist) = Len(Steps) /\ SummaryPrinted)
      ELSE /\ hist[k].raised /\ status = "aborted"
           /\ k = Len(hist) /\ ~SummaryPrinted
           /\ \A f \in Files : (\A j \in 1..k : hist[j].file # f) =>
                                  (reads[f] = 0 /\ writes[f] = 0)

(* C10 witness: the first write of fix_all_errors.py failed; the run is
   aborted with its later target files existing and never opened. *)
C10_Witness ==
  /\ script = "fix_all_errors" /\ status = "aborted"
  /\ Len(hist) = 1 /\ hist[1].failed
  /\ fs["F2"].ex /\ fs["F3"].ex
  /\ reads["F2"] = 0 /\ reads["F3"] = 0
  /\ ~SummaryPrinted

(* C16: in fix_phase2_imports.py a missing file and a failed read or write
   are caught for that file only: the step prints one ERROR line that names
   the file and raises nothing, the files are processed in list order, the
   run is never aborted, and a finished run has processed every file and
   printed its closing line last. *)
C16_ErrorsCaughtPerFile ==
  script = "fix_phase2_imports" =>
    /\ status # "aborted"
    /\ \A k \in 1..Len(hist) :
         /\ hist[k].step = k /\ hist[k].file = Steps[k].file
         /\ ~hist[k].raised
         /\ hist[k].lines = IF hist[k].existed /\ ~hist[k].failed
                            THEN <<Line("OKFixed", hist[k].file)>>
                            ELSE <<Line("Error", hist[k].file)>>
    /\ status = "running" => (pc = Len(hist) + 1 /\ pc <= Len(Steps) + 1)
    /\ status = "done" =>
         /\ Len(hist) = Len(Steps)
         /\ Len(out) = Len(Steps) + 1
         /\ out[Len(out)].kind = "Summary"

(* C16 witness: the first file was missing, the write of the second failed,
   the third was patched, and the run ended with its closing line. *)
C16_Witness ==
  /\ script = "fix_phase2_imports" /\ status = "done" /\ Len(hist) = 3
  /\ ~hist[1].existed /\ hist[1].lines = <<Line("Error", "F1")>>
  /\ hist[2].existed /\ hist[2].failed /\ hist[2].rd = 1 /\ hist[2].wr = 1
  /\ hist[3].existed /\ ~hist[3].failed /\ hist[3].wr = 1
  /\ hist[3].after # hist[3].read /\ fs["F3"].text = hist[3].after
  /\ SummaryPrinted

----------------------------------------------------------------------------
(* Properties of the substitutions under their flags, stated for SpecRe *)

(* The rule the k-th step applied *)
StepRule(k) == IF script = "re_fix_loop" THEN rules[k] ELSE rules[1]

(* A two-line input: statement A, white space that holds one line end,
   statement B. *)
TwoLines(t) ==
  /\ Len(t) >= 3 /\ t[1] = "A" /\ t[Len(t)] = "B"
  /\ \A i \in 2..(Len(t) - 1) : t[i] \in {"sp", "nl"}
  /\ Cardinality({i \in 2..(Len(t) - 1) : t[i] = "nl"}) = 1

(* The pattern crosses the line boundary of the two-line input t: its middle
   element stands for all that lies between the statements. *)
CrossesIn(pat, t) == TwoLines(t) /\ (pat[2] = "\\s+" \/ Len(t) = 3)

ReplacedAsUnit(k) ==
  /\ hist[k].after = StepRule(k).new
  /\ hist[k].wr = 1
  /\ k = Len(hist) => fs[Target].text = StepRule(k).new

LeftUnmatched(k) ==
  /\ hist[k].after = hist[k].read
  /\ hist[k].wr = 0
  /\ ~hist[k].matched

(* C11 as stated: a rule whose pattern crosses a line boundary replaces a
   two-line input as a single unit under fix_file (MULTILINE | DOTALL) and
   does not match it under a plain re.sub (fix loop, exportEventsToICal
   patch). *)
C11_CrossLineOnlyWithFlags ==
  \A k \in 1..Len(hist) :
    (/\ script \in HarnessRe /\ hist[k].existed
     /\ script = "re_fix_file" => Len(rules) = 1
     /\ CrossesIn(StepRule(k).old, hist[k].read))
    => IF script = "re_fix_file" THEN ReplacedAsUnit(k) ELSE LeftUnmatched(k)

(* C11 amended: under fix_file (MULTILINE | DOTALL) a rule whose pattern
   crosses a line boundary replaces a two-line input as a single unit; under
   a plain re.sub it does so as well when the pattern meets the line end with
   \s+ or a literal line end, and does not match only when it meets the line
   end with `.`. *)
C11_CrossLineBySpaceWithoutFlags ==
  \A k \in 1..Len(hist) :
    (/\ script \in HarnessRe /\ hist[k].existed
     /\ script = "re_fix_file" => Len(rules) = 1
     /\ CrossesIn(StepRule(k).old, hist[k].read))
    => IF script = "re_fix_file" \/ StepRule(k).old[2] # "."
       THEN ReplacedAsUnit(k)
       ELSE LeftUnmatched(k)

(* C11 witness: the fix loop, without flags, replaced statement A, a line
   end, an indentation and statement B as one unit by a \s+ pattern. *)
C11_Witness ==
  /\ script = "re_fix_loop" /\ Len(hist) = 1
  /\ hist[1].read = <<"A", "nl", "sp", "B">>
  /\ rules[1].old = <<"A", "\\s+", "B">>
  /\ hist[1].wr = 1
  /\ fs[Target].text = rules[1].new

(* C15: once the file holds the marker `// TODO: Method exportEventsToICal`,
   a run of the exportEventsToICal patch neither writes the file nor prints
   a "Fixed" line, and the file after two runs holds what it held after one. *)
C15_PatchedOnce ==
  \A k \in 1..Len(hist) :
    (script = "re_events" /\ hist[k].existed) =>
      /\ Has("T", hist[k].read) =>
           (hist[k].wr = 0 /\ ~Printed(hist[k], {"Fixed"}) /\ hist[k].after = hist[k].read)
      /\ k = Len(hist) => fs[Target].text = hist[1].after
      /\ (hist[1].matched /\ ~Has("T", hist[1].read)) => writes[Target] = 1

(* C15 witness: the first run replaced the two statements and left the
   marker, the second run read the marker, wrote nothing and printed nothing. *)
C15_Witness ==
  /\ script = "re_events" /\ Len(hist) = 2
  /\ hist[1].matched /\ hist[1].wr = 1 /\ Printed(hist[1], {"Fixed"})
  /\ Has("T", hist[1].after) /\ ~Has("T", hist[1].read)
  /\ hist[2].read = hist[1].after
  /\ hist[2].wr = 0 /\ hist[2].lines = <<>>
  /\ writes[Target] = 1 /\ fs[Target].text = hist[1].after

(* No pattern of the rule list holds `.`, the one element of a pattern whose
   matches the flags change. *)
FlagFree(rs) == \A i \in 1..Len(rs) : \A j \in 1..Len(rs[i].old) : rs[i].old[j] # "."

(* What fix_file leaves in the file when called once with the whole list on
   the text t *)
SinglePass(rs, t) ==
  FixFileFlags([fs EXCEPT ![Target] = [ex |-> TRUE, text |-> t]], Target, rs, NoFault).fs[Target].text

(* C17: for rules whose patterns do not depend on the flags, the file the fix
   loop leaves after it has handled every entry of the file, each with its own
   read, substitution and write, holds the text fix_file leaves when it reads
   the file once and applies the same rules in the same order; a missing file
   stays missing. *)
C17_LoopEqualsSinglePass ==
  (script = "re_fix_loop" /\ Len(hist) = Len(rules) /\ FlagFree(rules)) =>
    IF hist[1].existed
    THEN /\ fs[Target].ex
         /\ fs[Target].text = SinglePass(rules, hist[1].read)
         /\ \A k \in 2..Len(hist) : hist[k].read = hist[k - 1].after
    ELSE ~fs[Target].ex /\ writes[Target] = 0

(* C17 witness: the loop wrote the file twice, its second rule matching only
   what the first had written, and the file holds fix_file's result. *)
C17_Witness ==
  /\ script = "re_fix_loop" /\ Len(rules) = 2 /\ Len(hist) = 2 /\ FlagFree(rules)
  /\ hist[1].wr = 1 /\ hist[2].wr = 1 /\ writes[Target] = 2
  /\ hist[2].matched
  /\ ~Searches(rules[2].old, hist[1].read, NoFlags)
  /\ fs[Target].text = SinglePass(rules, hist[1].read)
  /\ fs[Target].text # hist[1].after

----------------------------------------------------------------------------
(* Properties of the loop body of fix_phase2_imports.py, stated for SpecPhase2 *)

Positions(tok, t) == {p \in 1..Len(t) : t[p] = tok}
Last(S) == CHOOSE p \in S : \A q \in S : q <= p

(* C12: the sisDataService field is added to a file only if the file held
   one of the repository field declarations the script removes. *)
C12_FieldOnlyIfRepositoryField ==
  \A k \in 1..Len(hist) :
    (/\ script = "call_try" /\ hist[k].existed /\ hist[k].wr = 1 /\ ~hist[k].failed
     /\ Has("f", hist[k].after) /\ ~Has("f", hist[k].read))
    => Has("t", hist[k].read)

(* C13: when a file lacks the import of SISDataService and has import
   statements, the new import stands after the last import statement of the
   file, with nothing but white-space lines between them. *)
C13_ImportAfterLastImport ==
  \A k \in 1..Len(hist) :
    (/\ script = "call_try" /\ hist[k].existed /\ hist[k].wr = 1 /\ ~hist[k].failed
     /\ ~HasSisImport(hist[k].read) /\ Has("i", hist[k].read))
    => LET t == hist[k].after IN
       /\ Cardinality(Positions("S", t)) = 1
       /\ LET q == Last(Positions("S", t))
              p == Last(Positions("i", t))
          IN p < q /\ \A j \in (p + 1)..(q - 1) : t[j] = "n"

----------------------------------------------------------------------------
(* Properties of the patch of line 636 of EventsController.java, stated for SpecLine *)

(* C14: when the patched line holds `exportEventsToICal` and no `// TODO`,
   the file afterwards holds the TODO marker line followed by the original
   line commented out, and every other line keeps its content and order. *)
C14_LineCommentedOut ==
  \A k \in 1..Len(hist) :
    LET h == hist[k]
        n == EventsLine.minLines
    IN (/\ script = "call_events_line" /\ h.existed /\ h.wr = 1 /\ ~h.failed
        /\ Len(h.read) >= n /\ NamesICal(h.read[n]) /\ ~HasTodo(h.read[n]))
       => h.after = SubSeq(h.read, 1, n - 1) \o <<"T", CommentedOut(h.read[n])>>
                      \o SubSeq(h.read, n + 1, Len(h.read))

====
